---- MODULE Spec2Model ----
(***************************************************************************)
(* Model of the sentinel_list crate (src/src/lib.rs): a circular doubly    *)
(* linked list with one valueless sentinel node owned by the List and one  *)
(* heap node per Handle.  The heap is a function from node addresses to    *)
(* Link records; raw pointers are addresses.                               *)
(*                                                                         *)
(* Compile-time borrow rules are modelled as guards: methods taking        *)
(* `&mut self` on the List need no live iterator, methods taking `&self`   *)
(* need no live IterMut, and the List cannot be dropped while borrowed.    *)
(* A Handle (`impl ListHandle<T>`) carries no borrow of the List, so its   *)
(* unlink and drop are never blocked.  One iterator slot is modelled.      *)
(***************************************************************************)
EXTENDS Integers, Sequences, FiniteSets

\* ---------------------------------------------------------------- bounds
MaxNodes == 3
MaxVal == 2

\* ------------------------------------------------------------- addresses
Sentinel == 0
Null == 0 - 1
None == 0

NodeIds == 1..MaxNodes
AllIds == 0..MaxNodes
Values == 1..MaxVal
OptValues == Values \cup {None}

VARIABLES
    link,       \* heap: address -> Link { next, prev, value }
    alloc,      \* addresses whose Box is currently allocated
    handles,    \* addresses held by live Handles returned from push_*
    listAlive,  \* the List (owner of the sentinel Handle) has not been dropped
    it,         \* the iterator slot: Iter / IterMut and its cursor
    model,      \* abstract sequence of [h, v]: prepend on push_head, append on
                \* push_tail, delete on unlink/drop; v is the value pushed, or
                \* the last value assigned through a mutable reference
    ret         \* result of the last operation

vars == <<link, alloc, handles, listAlive, it, model, ret>>

\* ------------------------------------------------------------ Link / heap
\* Link::new: both pointers null until insert_after sets them.
LinkNew(v) == [next |-> Null, prev |-> Null, value |-> v]

\* Handle::new_sentinel: a boxed Link with no value, linked to itself.
NewSentinel == [next |-> Sentinel, prev |-> Sentinel, value |-> None]

\* Contents the model keeps for an address whose Box has been freed.
FreedLink == [next |-> Null, prev |-> Null, value |-> None]

\* insert_after without its last write (the old successor's prev).
InsertAfterNoBackLink(L, after, h) ==
    LET n  == L[after].next
        L1 == [L EXCEPT ![h].prev = after]
        L2 == [L1 EXCEPT ![h].next = n]
    IN  [L2 EXCEPT ![after].next = h]

\* insert_after(after, h): four pointer writes, in source order.
InsertAfter(L, after, h) ==
    LET n  == L[after].next
        L1 == [L EXCEPT ![h].prev = after]
        L2 == [L1 EXCEPT ![h].next = n]
        L3 == [L2 EXCEPT ![after].next = h]
        n2 == L3[h].next
    IN  [L3 EXCEPT ![n2].prev = h]

\* Link::unlink without `prev.next = next`.
LinkUnlinkBackOnly(L, self) ==
    LET prev == L[self].prev
        next == L[self].next
    IN  [L EXCEPT ![next].prev = prev]

\* Link::unlink with the successor's prev set to self's successor.
LinkUnlinkWrongPrev(L, self) ==
    LET prev == L[self].prev
        next == L[self].next
        L1   == [L EXCEPT ![next].prev = next]
    IN  [L1 EXCEPT ![prev].next = next]

\* Link::unlink that also points the detached node at itself.
LinkUnlinkSelfLinks(L, self) ==
    LET prev == L[self].prev
        next == L[self].next
        L1   == [L EXCEPT ![next].prev = prev]
        L2   == [L1 EXCEPT ![prev].next = next]
    IN  [L2 EXCEPT ![self].prev = self, ![self].next = self]

\* Link::unlink(&mut self): the neighbours are made to point at each other;
\* self's own prev/next are left as they were.
LinkUnlink(L, self) ==
    LET prev == L[self].prev
        next == L[self].next
        L1   == [L EXCEPT ![next].prev = prev]
    IN  [L1 EXCEPT ![prev].next = next]

\* Option::take on link.value.
TakeValue(L, n) == [L EXCEPT ![n].value = None]

\* Drop for Handle that frees the node without unlinking it.
DropHandleNoUnlink(H, n) ==
    [link    |-> [H.link EXCEPT ![n] = FreedLink],
     alloc   |-> H.alloc \ {n},
     unlinks |-> H.unlinks,
     frees   |-> H.frees + 1]

\* Drop for Handle that unlinks the node and never frees its Box.
DropHandleLeak(H, n) ==
    [link    |-> LinkUnlink(H.link, n),
     alloc   |-> H.alloc,
     unlinks |-> H.unlinks + 1,
     frees   |-> H.frees]

\* Drop for Handle: Link::unlink, then Box::from_raw + drop frees the node.
\* Works on a heap record [link, alloc, unlinks, frees]; unlinks and frees
\* count the Link::unlink calls and the Box frees the current call has made.
DropHandle(H, n) ==
    [link    |-> [LinkUnlink(H.link, n) EXCEPT ![n] = FreedLink],
     alloc   |-> H.alloc \ {n},
     unlinks |-> H.unlinks + 1,
     frees   |-> H.frees + 1]

\* into_inner reading the value after value.take() has emptied it.
IntoInnerReadAfterTake(H, n) ==
    LET L1 == LinkUnlink(H.link, n)
        L2 == TakeValue(L1, n)
        v  == L2[n].value
    IN  [heap  |-> DropHandle([link |-> L2, alloc |-> H.alloc,
                               unlinks |-> H.unlinks + 1, frees |-> H.frees], n),
         value |-> v]

\* Handle::into_inner(self): Link::unlink, value.take(), and then `h` goes
\* out of scope at the end of the function, which runs Drop for Handle.
IntoInner(H, n) ==
    LET L1 == LinkUnlink(H.link, n)
        v  == L1[n].value
        L2 == TakeValue(L1, n)
    IN  [heap  |-> DropHandle([link |-> L2, alloc |-> H.alloc,
                               unlinks |-> H.unlinks + 1, frees |-> H.frees], n),
         value |-> v]

Heap == [link |-> link, alloc |-> alloc, unlinks |-> 0, frees |-> 0]

\* ----------------------------------------------------------- abstraction
ModelValues == [i \in 1..Len(model) |-> model[i].v]
ModelIds == [i \in 1..Len(model) |-> model[i].h]
Remove(s, n) == SelectSeq(s, LAMBDA x : x.h # n)
SetValue(s, n, w) == [i \in 1..Len(s) |-> IF s[i].h = n THEN [s[i] EXCEPT !.v = w] ELSE s[i]]

NoIter == [kind |-> "none", cur |-> Sentinel, ended |-> FALSE, yielded |-> <<>>, mutated |-> FALSE]
\* What the last call returned; calls that return no value (or only a Handle
\* or iterator, which the other variables hold) leave Void.
Result(op, v) == [op |-> op, val |-> v, unlinks |-> 0, frees |-> 0]
\* The result of a call that ended a Handle's life, with what it did to get
\* there: H is the heap record the call produced.
Ended(op, v, H) == [op |-> op, val |-> v, unlinks |-> H.unlinks, frees |-> H.frees]
Void == Result("void", None)

\* ------------------------------------------------------------------ Init
\* List::new(): only the sentinel exists.
Init ==
    /\ link = [a \in AllIds |-> IF a = Sentinel THEN NewSentinel ELSE FreedLink]
    /\ alloc = {Sentinel}
    /\ handles = {}
    /\ listAlive = TRUE
    /\ it = NoIter
    /\ model = <<>>
    /\ ret = Void

\* --------------------------------------------------------------- actions
\* Handle::new(e): Box::new may return any address not currently allocated.
\* List::push_head(&mut self, e)
PushHead(n, e) ==
    /\ listAlive /\ it.kind = "none"
    /\ n \in NodeIds \ alloc
    /\ link' = InsertAfter([link EXCEPT ![n] = LinkNew(e)], Sentinel, n)
    /\ alloc' = alloc \cup {n}
    /\ handles' = handles \cup {n}
    /\ model' = <<[h |-> n, v |-> e]>> \o model
    /\ ret' = Result("push_head", None)
    /\ UNCHANGED <<listAlive, it>>

\* push_tail that inserts after the sentinel, as push_head does.
PushTailAfterSentinel(n, e) ==
    /\ listAlive /\ it.kind = "none"
    /\ n \in NodeIds \ alloc
    /\ link' = InsertAfter([link EXCEPT ![n] = LinkNew(e)], Sentinel, n)
    /\ alloc' = alloc \cup {n}
    /\ handles' = handles \cup {n}
    /\ model' = Append(model, [h |-> n, v |-> e])
    /\ ret' = Result("push_tail", None)
    /\ UNCHANGED <<listAlive, it>>

\* List::push_tail(&mut self, e)
PushTail(n, e) ==
    /\ listAlive /\ it.kind = "none"
    /\ n \in NodeIds \ alloc
    /\ link' = InsertAfter([link EXCEPT ![n] = LinkNew(e)], link[Sentinel].prev, n)
    /\ alloc' = alloc \cup {n}
    /\ handles' = handles \cup {n}
    /\ model' = Append(model, [h |-> n, v |-> e])
    /\ ret' = Result("push_tail", None)
    /\ UNCHANGED <<listAlive, it>>

\* A live iterator sees a structural change made through a Handle.
Disturb(i) ==
    IF i.kind = "none" THEN i ELSE [i EXCEPT !.mutated = TRUE, !.yielded = <<>>]

\* ListHandle::unlink(self) for Handle: into_inner().unwrap()
HandleUnlink(n) ==
    /\ n \in handles
    /\ LET r == IntoInner(Heap, n)
       IN  /\ link' = r.heap.link
           /\ alloc' = r.heap.alloc
           /\ ret' = Ended("unlink", r.value, r.heap)
    /\ handles' = handles \ {n}
    /\ model' = Remove(model, n)
    /\ it' = Disturb(it)
    /\ UNCHANGED listAlive

\* A Handle goes out of scope without unlink(): Drop for Handle.
HandleDrop(n) ==
    /\ n \in handles
    /\ LET r == DropHandle(Heap, n)
       IN  /\ link' = r.link
           /\ alloc' = r.alloc
           /\ ret' = Ended("drop", None, r)
    /\ handles' = handles \ {n}
    /\ model' = Remove(model, n)
    /\ it' = Disturb(it)
    /\ UNCHANGED listAlive

\* List::peek_head / peek_head_mut: the value of the node after the sentinel.
PeekHead(L) == L[L[Sentinel].next].value

\* peek_tail reading the sentinel's successor instead of its predecessor.
PeekTailViaNext(L) == L[L[Sentinel].next].value

\* List::peek_tail / peek_tail_mut: the value of the node before the sentinel.
PeekTail(L) == L[L[Sentinel].prev].value

\* peek_head(&self)
CallPeekHead ==
    /\ listAlive /\ it.kind \in {"none", "iter"}
    /\ ret' = Result("peek_head", PeekHead(link))
    /\ UNCHANGED <<link, alloc, handles, listAlive, it, model>>

\* peek_tail that takes the value out of the tail node instead of borrowing it.
CallPeekTailTake ==
    /\ listAlive /\ it.kind \in {"none", "iter"}
    /\ ret' = Result("peek_tail", PeekTail(link))
    /\ link' = TakeValue(link, link[Sentinel].prev)
    /\ UNCHANGED <<alloc, handles, listAlive, it, model>>

\* peek_tail(&self)
CallPeekTail ==
    /\ listAlive /\ it.kind \in {"none", "iter"}
    /\ ret' = Result("peek_tail", PeekTail(link))
    /\ UNCHANGED <<link, alloc, handles, listAlive, it, model>>

\* An assignment through `&mut T` that lands on the successor of node n.
WriteThroughSuccessor(n, w) ==
    /\ link' = [link EXCEPT ![link[n].next].value = w]
    /\ model' = SetValue(model, n, w)

\* The caller assigns w through a `&mut T` to the value of node n.
WriteThrough(n, w) ==
    /\ link' = [link EXCEPT ![n].value = w]
    /\ model' = SetValue(model, n, w)

\* peek_head_mut(&mut self), the caller assigning w when a value is present.
CallPeekHeadMut(w) ==
    /\ listAlive /\ it.kind = "none"
    /\ LET n == link[Sentinel].next
       IN  /\ ret' = Result("peek_head_mut", PeekHead(link))
           /\ IF PeekHead(link) # None
              THEN WriteThrough(n, w)
              ELSE UNCHANGED <<link, model>>
    /\ UNCHANGED <<alloc, handles, listAlive, it>>

\* peek_tail_mut(&mut self), the caller assigning w when a value is present.
CallPeekTailMut(w) ==
    /\ listAlive /\ it.kind = "none"
    /\ LET n == link[Sentinel].prev
       IN  /\ ret' = Result("peek_tail_mut", PeekTail(link))
           /\ IF PeekTail(link) # None
              THEN WriteThrough(n, w)
              ELSE UNCHANGED <<link, model>>
    /\ UNCHANGED <<alloc, handles, listAlive, it>>

\* Deref for Handle, then Deref for Link: self.value.as_ref().unwrap().
AsRef(L, n) == L[n].value

\* ListHandle::as_ref(&self) for Handle; a Handle borrows nothing of the List.
CallAsRef(n) ==
    /\ n \in handles
    /\ ret' = Result("as_ref", AsRef(link, n))
    /\ UNCHANGED <<link, alloc, handles, listAlive, it, model>>

\* List::iter(&self): the cursor starts on sentinel.next.
CallIter ==
    /\ listAlive /\ it.kind = "none"
    /\ it' = [NoIter EXCEPT !.kind = "iter", !.cur = link[Sentinel].next]
    /\ ret' = Void
    /\ UNCHANGED <<link, alloc, handles, listAlive, model>>

\* iter_mut starting on the sentinel itself.
CallIterMutFromSentinel ==
    /\ listAlive /\ it.kind = "none"
    /\ it' = [NoIter EXCEPT !.kind = "iter_mut", !.cur = Sentinel]
    /\ ret' = Void
    /\ UNCHANGED <<link, alloc, handles, listAlive, model>>

\* List::iter_mut(&mut self): the cursor is Some(sentinel.next).
CallIterMut ==
    /\ listAlive /\ it.kind = "none"
    /\ it' = [NoIter EXCEPT !.kind = "iter_mut", !.cur = link[Sentinel].next]
    /\ ret' = Void
    /\ UNCHANGED <<link, alloc, handles, listAlive, model>>

\* Iterator for Iter, next(): value.as_ref().and_then(advance; Some(v)).
\* The cursor moves only when the node under it holds a value.
IterStep(L, c) ==
    IF L[c].value # None
    THEN [cur |-> L[c].next, val |-> L[c].value]
    ELSE [cur |-> c, val |-> None]

\* Iterator for IterMut, next(): take the cursor, store link.next as the new
\* cursor unconditionally, return link.value.as_mut().
IterMutStep(L, c) == [cur |-> L[c].next, val |-> L[c].value]

\* What a read through a dangling cursor can produce: any value, any pointer.
DanglingIterReads(c) ==
    {[cur |-> IF v # None THEN c2 ELSE c, val |-> v] : v \in OptValues, c2 \in AllIds}
DanglingIterMutReads == {[cur |-> c2, val |-> v] : v \in OptValues, c2 \in AllIds}

\* Bookkeeping of one next() call: the nodes yielded before the first
\* end-of-sequence, kept while the ring has not changed under the iterator.
Advance(i, r) ==
    [i EXCEPT !.cur = r.cur,
              !.ended = i.ended \/ r.val = None,
              !.yielded = IF i.ended \/ i.mutated \/ r.val = None
                          THEN i.yielded ELSE Append(i.yielded, i.cur)]

IterNext ==
    /\ it.kind = "iter"
    /\ \E r \in (IF it.cur \in alloc THEN {IterStep(link, it.cur)}
                 ELSE DanglingIterReads(it.cur)) :
          /\ it' = Advance(it, r)
          /\ ret' = Result("next", r.val)
    /\ UNCHANGED <<link, alloc, handles, listAlive, model>>

\* next() on an IterMut; w # None is the caller assigning w through the
\* yielded `&mut T`.  A write through a dangling cursor lands in freed
\* storage that no live node occupies.
IterMutNext(w) ==
    /\ it.kind = "iter_mut"
    /\ \E r \in (IF it.cur \in alloc THEN {IterMutStep(link, it.cur)}
                 ELSE DanglingIterMutReads) :
          /\ it' = Advance(it, r)
          /\ ret' = Result("next_mut", r.val)
          /\ IF w # None /\ r.val # None /\ it.cur \in handles
             THEN WriteThrough(it.cur, w)
             ELSE UNCHANGED <<link, model>>
    /\ UNCHANGED <<alloc, handles, listAlive>>

\* The iterator goes out of scope; the borrow of the List ends.
IterDrop ==
    /\ it.kind # "none"
    /\ it' = NoIter
    /\ ret' = Void
    /\ UNCHANGED <<link, alloc, handles, listAlive, model>>

\* The List goes out of scope: its field `sentinel: Handle<T>` is dropped.
ListDrop ==
    /\ listAlive /\ it.kind = "none"
    /\ LET r == DropHandle(Heap, Sentinel)
       IN  /\ link' = r.link
           /\ alloc' = r.alloc
           /\ ret' = Ended("list_drop", None, r)
    /\ listAlive' = FALSE
    /\ UNCHANGED <<handles, it, model>>

Next ==
    \/ \E n \in NodeIds, e \in Values : PushHead(n, e)
    \/ \E n \in NodeIds, e \in Values : PushTail(n, e)
    \/ \E n \in NodeIds : HandleUnlink(n)
    \/ \E n \in NodeIds : HandleDrop(n)
    \/ CallPeekHead
    \/ CallPeekTail
    \/ \E w \in Values : CallPeekHeadMut(w)
    \/ \E w \in Values : CallPeekTailMut(w)
    \/ \E n \in NodeIds : CallAsRef(n)
    \/ CallIter
    \/ CallIterMut
    \/ IterNext
    \/ \E w \in OptValues : IterMutNext(w)
    \/ IterDrop
    \/ ListDrop

Spec == Init /\ [][Next]_vars

\* ================================================================= claims
Empty == link[Sentinel].next = Sentinel /\ link[Sentinel].prev = Sentinel

\* The nodes met by following next from the sentinel until it comes round.
RECURSIVE RingFrom(_, _)
RingFrom(c, fuel) ==
    IF fuel = 0 \/ c \notin AllIds THEN {}
    ELSE {c} \cup (IF link[c].next = Sentinel THEN {}
                   ELSE RingFrom(link[c].next, fuel - 1))
Linked == RingFrom(Sentinel, MaxNodes + 1) \cup handles

\* The values a fresh iter() yields when run to its first end-of-sequence.
RECURSIVE Walk(_, _, _)
Walk(L, c, fuel) ==
    IF fuel = 0 \/ c \notin AllIds THEN <<>>
    ELSE LET r == IterStep(L, c)
         IN  IF r.val = None THEN <<>>
             ELSE <<r.val>> \o Walk(L, r.cur, fuel - 1)
FreshIterValues == Walk(link, link[Sentinel].next, MaxNodes + 1)

ValueOf(s, n) == s[CHOOSE i \in 1..Len(s) : s[i].h = n].v
IsPrefix(s, t) == Len(s) <= Len(t) /\ \A i \in 1..Len(s) : s[i] = t[i]

\* C1: while the List exists, every node linked in the ring, the sentinel
\* included, satisfies N.next.prev = N and N.prev.next = N after any sequence
\* of pushes, unlinks and drops.
C1_RingInvariant ==
    listAlive =>
        \A n \in Linked :
            /\ link[n].next \in AllIds /\ link[n].prev \in AllIds
            /\ link[link[n].next].prev = n
            /\ link[link[n].prev].next = n

\* A node has just been unlinked from between others that stay linked.
C1_Witness == listAlive /\ ret.op = "unlink" /\ Len(model) >= 2

\* C2: the values a fresh iter() yields are exactly the abstract sequence
\* (prepend on push_head, append on push_tail, delete the handle's own
\* element on unlink or drop).
C2_SequenceRefinement == listAlive => FreshIterValues = ModelValues

\* Two different values remain in order after a removal.
C2_Witness ==
    /\ listAlive /\ ret.op = "drop"
    /\ Len(model) = 2 /\ model[1].v # model[2].v

\* C3: peek_head is the first and peek_tail the last value of the sequence;
\* each is absent exactly when the sentinel is self-linked, and the mutable
\* variants follow the same emptiness rule.
C3_Peek ==
    listAlive =>
        /\ PeekHead(link) = (IF model = <<>> THEN None ELSE model[1].v)
        /\ PeekTail(link) = (IF model = <<>> THEN None ELSE model[Len(model)].v)
        /\ (PeekHead(link) = None) <=> Empty
        /\ (PeekTail(link) = None) <=> Empty
        /\ ret.op = "peek_head" => ret.val = PeekHead(link)
        /\ ret.op = "peek_tail" => ret.val = PeekTail(link)
        /\ ret.op \in {"peek_head", "peek_tail", "peek_head_mut", "peek_tail_mut"}
              => ((ret.val = None) <=> Empty)

\* peek_tail has returned a last value that differs from the first.
C3_Witness ==
    /\ ret.op = "peek_tail" /\ ret.val # None
    /\ Len(model) >= 2 /\ model[1].v # ret.val

\* C4: Handle.unlink() returns the value the abstract sequence holds for that
\* handle: the one passed to the push that created it, or, once a mutable
\* access rewrote the element, the value last written.
C4_UnlinkReturnsPushed ==
    [][\A n \in NodeIds :
          (n \in handles /\ n \notin handles' /\ ret'.op = "unlink")
              => ret'.val = ValueOf(model, n)]_vars

\* unlink() has returned a value while other elements are still linked.
C4_Witness == ret.op = "unlink" /\ ret.val # None /\ Len(model) >= 1

\* C5: dropping a Handle leaves the heap (every prev/next link, hence head,
\* tail and iteration order) exactly as unlink() of that handle would have
\* from the same state.
C5_DropLikeUnlink ==
    [][\A n \in NodeIds :
          (n \in handles /\ n \notin handles' /\ ret'.op = "drop")
              => /\ link' = IntoInner(Heap, n).heap.link
                 /\ alloc' = IntoInner(Heap, n).heap.alloc]_vars

\* A handle has been dropped out of a list that still holds elements.
C5_Witness == ret.op = "drop" /\ listAlive /\ Len(model) >= 1

\* C6: while the List exists no allocated node's prev or next refers to a
\* freed node.
C6_NoDanglingLinks ==
    listAlive =>
        \A n \in alloc : link[n].next \in alloc /\ link[n].prev \in alloc

\* A node has just been freed by unlink or drop and others stay allocated.
C6_Witness ==
    /\ listAlive /\ ret.op \in {"unlink", "drop"}
    /\ Cardinality(alloc) >= 2 /\ Cardinality(alloc) <= MaxNodes

\* C7: while an iterator is live no structural mutation of the ring takes
\* place, and its cursor never rests on a freed node.
C7_NoMutationWhileIterating ==
    it.kind # "none" => (~it.mutated /\ it.cur \in alloc)

\* C8: once an IterMut has returned end-of-sequence, every further next()
\* returns end-of-sequence (stated for a ring left unchanged under it).
C8_IterMutNotRestartable ==
    [][(it.kind = "iter_mut" /\ it.ended /\ ~it.mutated /\ ret'.op = "next_mut")
          => ret'.val = None]_vars

\* C9: once an Iter has returned end-of-sequence, every further next()
\* returns end-of-sequence and its cursor stays on the sentinel.
C9_IterNotRestartable ==
    [][(it.kind = "iter" /\ it.ended /\ ret'.op = "next")
          => (ret'.val = None /\ it'.cur = Sentinel)]_vars

\* C10: with no structural mutation during the pass, Iter and IterMut yield
\* the n linked elements once each, in order, and return end-of-sequence on
\* call n+1 (on the first call when n = 0).
C10_IterationTerminates ==
    (it.kind # "none" /\ ~it.mutated) =>
        /\ IsPrefix(it.yielded, ModelIds)
        /\ it.ended => it.yielded = ModelIds
        /\ (it.kind = "iter" /\ ret.op = "next" /\ ~it.ended)
              => (it.yielded # <<>> /\ ret.val = model[Len(it.yielded)].v)

\* An IterMut has run to end-of-sequence over at least two elements.
C10_Witness ==
    /\ it.kind = "iter_mut" /\ it.ended /\ ~it.mutated
    /\ Len(it.yielded) >= 2

\* The nodes whose value a step changes.
Rewritten == {m \in AllIds : link'[m].value # link[m].value}
LinksKept == \A m \in AllIds : link'[m].next = link[m].next /\ link'[m].prev = link[m].prev

\* C11: a write made through iter_mut, peek_head_mut or peek_tail_mut changes
\* the value of the one node at that position and nothing else: no prev/next
\* link changes, no other value changes, and as_ref on every handle then
\* reads the abstract value of its own element (the written one for the node
\* written).
C11_WriteFrame ==
    [][(ret'.op \in {"peek_head_mut", "peek_tail_mut", "next_mut"}) =>
          /\ LinksKept
          /\ alloc' = alloc /\ handles' = handles
          /\ ret'.op = "peek_head_mut" =>
                Rewritten \subseteq (IF model = <<>> THEN {} ELSE {model[1].h})
          /\ ret'.op = "peek_tail_mut" =>
                Rewritten \subseteq (IF model = <<>> THEN {} ELSE {model[Len(model)].h})
          /\ ret'.op = "next_mut" => Rewritten \subseteq ({it.cur} \cap handles)
          /\ \A n \in handles' : AsRef(link', n) = ValueOf(model', n)]_vars

\* An undisturbed IterMut has just yielded an element whose value the
\* caller then replaced: the node behind the cursor no longer holds the
\* value that next() returned.
C11_Witness ==
    /\ ret.op = "next_mut" /\ ret.val # None
    /\ it.kind = "iter_mut" /\ ~it.mutated /\ it.cur \in alloc
    /\ link[link[it.cur].prev].value # ret.val
    /\ Len(model) >= 2

\* C12: ending a Handle's life, by unlink() or by drop, runs Link::unlink on
\* its node exactly once.
C12_UnlinkedOnce == ret.op \in {"unlink", "drop"} => ret.unlinks = 1

\* C13: with the List alive, the nodes reachable from the sentinel by next
\* are the sentinel and the nodes of the live handles, one distinct node per
\* handle; the sentinel's value is absent and every other linked node's value
\* is present.
C13_Ownership ==
    listAlive =>
        /\ RingFrom(Sentinel, MaxNodes + 1) = {Sentinel} \cup handles
        /\ Sentinel \notin handles
        /\ {model[i].h : i \in 1..Len(model)} = handles
        /\ Cardinality(handles) = Len(model)
        /\ link[Sentinel].value = None
        /\ \A n \in handles : link[n].value # None

\* Handles have come and gone and two of them are live, as_ref having read
\* one of their values.
C13_Witness ==
    /\ listAlive /\ Cardinality(handles) = 2
    /\ ret.op = "as_ref" /\ ret.val # None

\* C14: unlink() or drop of node N with P = N.prev and S = N.next sets
\* P.next = S and S.prev = P, and changes no other prev/next and no value of
\* any node that remains; when N was the only element the sentinel ends up
\* self-linked.
C14_UnlinkFrame ==
    [][\A n \in NodeIds :
          (n \in handles /\ n \notin handles' /\ ret'.op \in {"unlink", "drop"}) =>
              LET P == link[n].prev
                  S == link[n].next
              IN  /\ alloc' = alloc \ {n}
                  /\ \A m \in alloc \ {n} :
                        /\ link'[m].value = link[m].value
                        /\ link'[m].next = (IF m = P THEN S ELSE link[m].next)
                        /\ link'[m].prev = (IF m = S THEN P ELSE link[m].prev)
                  /\ (listAlive /\ handles = {n}) =>
                        /\ link'[Sentinel].next = Sentinel
                        /\ link'[Sentinel].prev = Sentinel]_vars

\* The only element has just been removed and the sentinel is self-linked.
C14_Witness == listAlive /\ ret.op \in {"unlink", "drop"} /\ Empty

\* C15: a push of new node N after anchor A (the sentinel for push_head, the
\* sentinel's predecessor for push_tail) with old successor S = A.next sets
\* N.prev = A, N.next = S, A.next = N and S.prev = N, and changes no other
\* field of any node; on an empty list both links of the sentinel end up on N.
C15_InsertFrame ==
    [][\A n \in NodeIds :
          (n \notin handles /\ n \in handles' /\ ret'.op \in {"push_head", "push_tail"}) =>
              LET A == IF ret'.op = "push_head" THEN Sentinel ELSE link[Sentinel].prev
                  S == link[A].next
              IN  /\ alloc' = alloc \cup {n}
                  /\ link'[n].prev = A /\ link'[n].next = S
                  /\ link'[n].value = ValueOf(model', n)
                  /\ link'[A].next = n /\ link'[S].prev = n
                  /\ \A m \in AllIds \ {n} :
                        /\ link'[m].value = link[m].value
                        /\ link'[m].next = (IF m = A THEN n ELSE link[m].next)
                        /\ link'[m].prev = (IF m = S THEN n ELSE link[m].prev)
                  /\ Empty => (link'[Sentinel].next = n /\ link'[Sentinel].prev = n)]_vars

\* push_tail has just linked a node after a tail that is not the sentinel.
C15_Witness ==
    /\ ret.op = "push_tail" /\ Len(model) >= 2
    /\ link[link[Sentinel].prev].prev # Sentinel

\* C16: peek_head, peek_tail, iter, every next() of an Iter, and as_ref
\* change no prev/next link and no value of any node, free nothing and end
\* no handle's life.
C16_ReadOnly ==
    [][(\/ ret'.op \in {"peek_head", "peek_tail", "next", "as_ref"}
        \/ (it.kind = "none" /\ it'.kind = "iter"))
          => (link' = link /\ alloc' = alloc /\ handles' = handles
              /\ listAlive' = listAlive)]_vars

\* An Iter has yielded an element of a list of at least two.
C16_Witness ==
    /\ ret.op = "next" /\ ret.val # None
    /\ it.kind = "iter" /\ ~it.mutated /\ Len(model) >= 2

\* The nodes met by following next from node start until it comes round.
RECURSIVE OrbitFrom(_, _, _)
OrbitFrom(start, c, fuel) ==
    IF fuel = 0 \/ c \notin AllIds THEN {}
    ELSE {c} \cup (IF link[c].next = start THEN {}
                   ELSE OrbitFrom(start, link[c].next, fuel - 1))

\* The nodes Link::unlink on n reads or writes: n and its two neighbours.
Touched(L, n) == {n, L[n].prev, L[n].next}

\* C17: once the List has been dropped with handles still live, only the
\* sentinel has been freed; the handles' nodes form a closed ring that keeps
\* the ring invariant and holds no reference to the sentinel, and each handle
\* can be unlinked (returning its own value) or dropped touching only
\* allocated nodes.
C17_Teardown ==
    ~listAlive =>
        /\ Sentinel \notin alloc
        /\ alloc = handles
        /\ \A n \in handles :
              /\ link[n].next \in handles /\ link[n].prev \in handles
              /\ link[link[n].next].prev = n
              /\ link[link[n].prev].next = n
              /\ OrbitFrom(n, n, MaxNodes + 1) = handles
              /\ Touched(link, n) \subseteq alloc
              /\ Touched(LinkUnlink(link, n), n) \subseteq alloc
              /\ IntoInner(Heap, n).value = ValueOf(model, n)
              /\ IntoInner(Heap, n).heap.alloc = alloc \ {n}
              /\ DropHandle(Heap, n).alloc = alloc \ {n}

\* After the List was dropped a handle has been unlinked, returning its
\* value, and another handle is still live.
C17_Witness ==
    /\ ~listAlive /\ ret.op = "unlink" /\ ret.val # None
    /\ Cardinality(handles) >= 1

\* C18: every allocated node is freed exactly once: a handle's node by the
\* unlink() or drop that ends the handle, the sentinel by the drop of the
\* List; the allocated nodes are always exactly the live handles' nodes plus
\* the sentinel of a live List, and no call frees twice.
C18_FreedOnce ==
    /\ alloc = handles \cup (IF listAlive THEN {Sentinel} ELSE {})
    /\ ret.op \in {"unlink", "drop", "list_drop"} => ret.frees = 1
    /\ ret.op \notin {"unlink", "drop", "list_drop"} => ret.frees = 0

\* The List and every handle are gone and nothing is left allocated.
C18_Witness == ~listAlive /\ alloc = {} /\ ret.op = "drop" /\ ret.frees = 1

\* C19: Link::unlink on N leaves N's own prev and next as they were, and a
\* second Link::unlink on N right after the first changes nothing.
C19_UnlinkIdempotent ==
    \A n \in alloc :
        LET L1 == LinkUnlink(link, n)
        IN  /\ L1[n].next = link[n].next
            /\ L1[n].prev = link[n].prev
            /\ LinkUnlink(L1, n) = L1

\* unlink() has applied Link::unlink twice to a node taken from between
\* other linked nodes.
C19_Witness ==
    /\ ret.op = "unlink" /\ ret.unlinks = 2
    /\ listAlive /\ Cardinality(handles) >= 2

====
